---- MODULE Spec2Model ----
(***************************************************************************)
(* A model of transactionutils: the nestable transaction / savepoint       *)
(* helper xact() (transaction.py) and the resource dispatch wrapper        *)
(* TransactionModelResource (resources.py).                                *)
(*                                                                         *)
(* The database engine (django.db.transaction, django.db.connections) is   *)
(* the environment.  It is modelled per connection by the stack of         *)
(* transaction-management states, the active savepoints, the savepoint     *)
(* counter, the isolation level and a flag for uncommitted work; each      *)
(* engine call the code makes is an operator on that state, and every      *)
(* call is appended to a log so that the order of calls can be stated.     *)
(***************************************************************************)
EXTENDS Integers, Sequences, FiniteSets, TLC

\* ------------------------------------------------------------------ bounds
\* Scope entries (begins) one caller may perform in a run.
MaxBegins == 3
\* _TransactionWrapper objects created in a run (calls of xact()).
MaxWrappers == 2
\* Decorated functions created in a run.
MaxFuncs == 1
\* Requests dispatched in a run.
MaxRequests == 2
\* Engine calls that fail in a run.
MaxFailures == 1
\* Calls of the decorated function each of two concurrent callers makes.
MaxConcBegins == 2
\* Scope entries the caller performs in a run that also calls xact().
MaxXactBegins == 1
\* Scope entries the caller performs in a run over two aliases.
MaxAliasBegins == 3

\* --------------------------------------------------------------- constants
DEFAULT_DB_ALIAS == "default"
Aliases == {DEFAULT_DB_ALIAS, "other"}
\* Python's None as the argument of xact().
None == "None"
\* Python's None as _Transaction.sid (savepoint identifiers are tuples).
NoSid == <<>>
\* Python's None as _TransactionWrapper.transaction (objects are heap indices).
NoScope == 0
\* The callables xact() may be handed as a bare decorator.
Callables == {"f"}
\* What a decorated function's body may return.
RetVals == {"r1", "r2"}
AllThreads == {1, 2}

ISOLATION_LEVEL_AUTOCOMMIT == "autocommit"
ISOLATION_LEVEL_READ_COMMITTED == "read_committed"

\* Exceptions.  NoExc is "exc_value is None".
NoExc == "none"
BlockError == "BlockError"
CommitError == "CommitError"
RollbackError == "RollbackError"
ReleaseError == "ReleaseError"
SavepointRollbackError == "SavepointRollbackError"
ManagementError == "TransactionManagementError"
AttributeError == "AttributeError"

\* The engine calls that may fail on the engine's side.
FailOps == {"commit", "rollback", "savepoint_commit", "savepoint_rollback"}

VARIABLES
  threads,    \* the callers that run (each has its own connections)
  conn,       \* conn[t][alias]: the connection of caller t for alias
  wrappers,   \* heap of _TransactionWrapper objects: [using, transaction]
  funcs,      \* decorated functions: [wrapper, func]
  scopes,     \* heap of _Transaction objects: [using, sid, begins]
  stack,      \* stack[t]: the scopes caller t is inside, outermost first
  exc,        \* exc[t]: the exception propagating in caller t, or NoExc
  nest,       \* nest[t]: history of the current outermost nest of caller t
  last,       \* last[t]: history of the last scope exit of caller t
  begun,      \* begun[t]: scope entries caller t has performed
  failed,     \* engine calls that have failed so far
  xactRet,    \* history of the last call of xact()
  nXact,      \* number of calls of xact()
  served      \* history of the requests dispatched

vars == <<threads, conn, wrappers, funcs, scopes, stack, exc, nest, last,
          begun, failed, xactRet, nXact, served>>

\* ------------------------------------------------------------------ engine
\* An execution context threads the caller's connections and the log of
\* engine calls through a handler: [cs |-> connections, ops |-> log,
\* raised |-> exception raised by the last call or NoExc].

Top(s) == s[Len(s)]
Pop(s) == SubSeq(s, 1, Len(s) - 1)

Op(name, using, sid, ok) == [op |-> name, alias |-> using, sid |-> sid, ok |-> ok]

Logged(ctx, name, using, sid, ok) == Append(ctx.ops, Op(name, using, sid, ok))

\* transaction.is_managed(using): the top of the management stack, or the
\* setting TRANSACTIONS_MANAGED (False) outside any management block.
IsManaged(cs, using) ==
  IF cs[using].state = <<>> THEN FALSE ELSE Top(cs[using].state)

\* transaction.enter_transaction_management(using=using): push a state
\* (inheriting the current one); the backend leaves autocommit isolation.
EnterTransactionManagement(ctx, using) ==
  LET c == ctx.cs[using]
      inherited == IF c.state = <<>> THEN FALSE ELSE Top(c.state)
      iso == IF c.uses_autocommit /\ c.isolation = ISOLATION_LEVEL_AUTOCOMMIT
             THEN ISOLATION_LEVEL_READ_COMMITTED ELSE c.isolation
  IN [cs |-> [ctx.cs EXCEPT ![using] =
                 [c EXCEPT !.state = Append(c.state, inherited), !.isolation = iso]],
      ops |-> Logged(ctx, "enter_transaction_management", using, NoSid, TRUE),
      raised |-> NoExc]

\* transaction.managed(flag, using=using): set the top of the stack.
Managed(ctx, flag, using) ==
  LET c == ctx.cs[using]
  IN IF c.state = <<>>
     THEN [cs |-> ctx.cs,
           ops |-> Logged(ctx, "managed", using, NoSid, FALSE),
           raised |-> ManagementError]
     ELSE [cs |-> [ctx.cs EXCEPT ![using] =
                     [c EXCEPT !.state = [c.state EXCEPT ![Len(c.state)] = flag],
                               !.open = TRUE]],
           ops |-> Logged(ctx, "managed", using, NoSid, TRUE),
           raised |-> NoExc]

\* transaction.leave_transaction_management(using=using): pop the stack.
\* The backend (Django ticket 16047) does not restore the isolation level.
LeaveTransactionManagement(ctx, using) ==
  LET c == ctx.cs[using]
  IN IF c.state = <<>>
     THEN [cs |-> ctx.cs,
           ops |-> Logged(ctx, "leave_transaction_management", using, NoSid, FALSE),
           raised |-> ManagementError]
     ELSE [cs |-> [ctx.cs EXCEPT ![using] = [c EXCEPT !.state = Pop(c.state)]],
           ops |-> Logged(ctx, "leave_transaction_management", using, NoSid, TRUE),
           raised |-> NoExc]

\* connections[using]._set_isolation_level(level)
SetIsolationLevel(ctx, level, using) ==
  [cs |-> [ctx.cs EXCEPT ![using].isolation = level],
   ops |-> Logged(ctx, "_set_isolation_level", using, NoSid, TRUE),
   raised |-> NoExc]

\* transaction.commit(using): ends the transaction; its savepoints are gone
\* and the savepoint counter is reset.  fails: the engine refuses.
Commit(ctx, using, fails) ==
  IF fails
  THEN [cs |-> ctx.cs, ops |-> Logged(ctx, "commit", using, NoSid, FALSE),
        raised |-> CommitError]
  ELSE [cs |-> [ctx.cs EXCEPT ![using].savepoints = <<>>,
                              ![using].savepoint_state = 0,
                              ![using].open = FALSE],
        ops |-> Logged(ctx, "commit", using, NoSid, TRUE),
        raised |-> NoExc]

\* transaction.rollback(using)
Rollback(ctx, using, fails) ==
  IF fails
  THEN [cs |-> ctx.cs, ops |-> Logged(ctx, "rollback", using, NoSid, FALSE),
        raised |-> RollbackError]
  ELSE [cs |-> [ctx.cs EXCEPT ![using].savepoints = <<>>,
                              ![using].savepoint_state = 0,
                              ![using].open = FALSE],
        ops |-> Logged(ctx, "rollback", using, NoSid, TRUE),
        raised |-> NoExc]

\* The identifier of the n-th savepoint of caller t: "s<thread>_x<n>".
Sid(t, n) == <<t, n>>

\* transaction.savepoint(using): a new savepoint inside the open transaction.
\* The identifier is returned in the context's field sid.
Savepoint(ctx, t, using) ==
  LET c == ctx.cs[using]
      sid == Sid(t, c.savepoint_state + 1)
  IN [cs |-> [ctx.cs EXCEPT ![using] =
                [c EXCEPT !.savepoint_state = c.savepoint_state + 1,
                          !.savepoints = Append(c.savepoints, sid),
                          !.open = TRUE]],
      ops |-> Logged(ctx, "savepoint", using, sid, TRUE),
      raised |-> NoExc,
      sid |-> sid]

IndexOf(s, x) == CHOOSE i \in 1..Len(s) : s[i] = x

IsActive(c, sid) == \E i \in 1..Len(c.savepoints) : c.savepoints[i] = sid

\* transaction.savepoint_commit(sid, using): RELEASE SAVEPOINT destroys the
\* savepoint and those created after it; an unknown savepoint is an error.
SavepointCommit(ctx, sid, using, fails) ==
  LET c == ctx.cs[using]
  IN IF fails \/ ~IsActive(c, sid)
     THEN [cs |-> ctx.cs, ops |-> Logged(ctx, "savepoint_commit", using, sid, FALSE),
           raised |-> ReleaseError]
     ELSE [cs |-> [ctx.cs EXCEPT ![using].savepoints =
                     SubSeq(c.savepoints, 1, IndexOf(c.savepoints, sid) - 1)],
           ops |-> Logged(ctx, "savepoint_commit", using, sid, TRUE),
           raised |-> NoExc]

\* transaction.savepoint_rollback(sid, using): ROLLBACK TO SAVEPOINT destroys
\* the savepoints created after sid and keeps sid itself.
SavepointRollback(ctx, sid, using, fails) ==
  LET c == ctx.cs[using]
  IN IF fails \/ ~IsActive(c, sid)
     THEN [cs |-> ctx.cs, ops |-> Logged(ctx, "savepoint_rollback", using, sid, FALSE),
           raised |-> SavepointRollbackError]
     ELSE [cs |-> [ctx.cs EXCEPT ![using].savepoints =
                     SubSeq(c.savepoints, 1, IndexOf(c.savepoints, sid))],
           ops |-> Logged(ctx, "savepoint_rollback", using, sid, TRUE),
           raised |-> NoExc]

\* Re-raise: the context with the given exception pending.
Raise(ctx, e) == [cs |-> ctx.cs, ops |-> ctx.ops, raised |-> e]

\* ------------------------------------------------------------ _Transaction
\* _Transaction.__init__(using).  begins counts the calls of __enter__ on
\* the object (history).
NewTransaction(using) == [using |-> using, sid |-> NoSid, begins |-> 0]

\* Mutant: __enter__ without the is_managed test, always starting a transaction.
TransactionEnterAlwaysOuter(ctx, sc, t) ==
  LET r == Managed(EnterTransactionManagement(ctx, sc.using), TRUE, sc.using)
  IN [cs |-> r.cs, ops |-> r.ops, raised |-> r.raised, sid |-> sc.sid]

\* Mutant: __enter__ asking is_managed() of the default alias instead of
\* is_managed(using=self.using).
TransactionEnterManagedOnDefault(ctx, sc, t) ==
  IF IsManaged(ctx.cs, DEFAULT_DB_ALIAS)
  THEN LET r == Savepoint(ctx, t, sc.using)
       IN [cs |-> r.cs, ops |-> r.ops, raised |-> r.raised, sid |-> r.sid]
  ELSE LET r == Managed(EnterTransactionManagement(ctx, sc.using), TRUE, sc.using)
       IN [cs |-> r.cs, ops |-> r.ops, raised |-> r.raised, sid |-> sc.sid]

\* _Transaction.__enter__ of scope object sc, run by caller t.  The result is
\* the context after the engine calls, with the scope's sid afterwards.
TransactionEnter(ctx, sc, t) ==
  IF IsManaged(ctx.cs, sc.using)
  THEN LET r == Savepoint(ctx, t, sc.using)
       IN [cs |-> r.cs, ops |-> r.ops, raised |-> r.raised, sid |-> r.sid]
  ELSE LET r == Managed(EnterTransactionManagement(ctx, sc.using), TRUE, sc.using)
       IN [cs |-> r.cs, ops |-> r.ops, raised |-> r.raised, sid |-> sc.sid]

\* Mutant: the isolation level forced back without the uses_autocommit test.
LeaveManagementAndRestoreAlways(ctx, using) ==
  LET l == LeaveTransactionManagement(ctx, using)
  IN IF l.raised # NoExc THEN l
     ELSE IF ~IsManaged(l.cs, using)
          THEN SetIsolationLevel(l, ISOLATION_LEVEL_AUTOCOMMIT, using)
          ELSE l

\* _Transaction._leave_transaction_management
LeaveManagementAndRestore(ctx, using) ==
  LET l == LeaveTransactionManagement(ctx, using)
  IN IF l.raised # NoExc THEN l
     ELSE IF ~IsManaged(l.cs, using) /\ l.cs[using].uses_autocommit
          THEN SetIsolationLevel(l, ISOLATION_LEVEL_AUTOCOMMIT, using)
          ELSE l

\* Mutant: the leave placed after the try statement instead of in finally.
ExitOuterCommitNoFinally(ctx, using, fail) ==
  LET c == Commit(ctx, using, "commit" \in fail)
  IN IF c.raised = NoExc
     THEN LeaveManagementAndRestore(c, using)
     ELSE LET r == Rollback(c, using, "rollback" \in fail)
          IN Raise(r, IF r.raised = NoExc THEN c.raised ELSE r.raised)

\* try: commit / except: rollback; raise / finally: leave   (lines 32-38)
ExitOuterCommit(ctx, using, fail) ==
  LET c == Commit(ctx, using, "commit" \in fail)
  IN IF c.raised = NoExc
     THEN LeaveManagementAndRestore(c, using)
     ELSE LET r == Rollback(c, using, "rollback" \in fail)
              e == IF r.raised = NoExc THEN c.raised ELSE r.raised
              l == LeaveManagementAndRestore(r, using)
          IN Raise(l, IF l.raised # NoExc THEN l.raised ELSE e)

\* Mutant: a failed release answered like a failed outer commit, by rolling
\* back the whole transaction and leaving transaction management.
ExitInnerCommitAsOuter(ctx, sid, using, fail) ==
  LET c == SavepointCommit(ctx, sid, using, "savepoint_commit" \in fail)
  IN IF c.raised = NoExc
     THEN c
     ELSE LET r == Rollback(c, using, "rollback" \in fail)
              e == IF r.raised = NoExc THEN c.raised ELSE r.raised
              l == LeaveManagementAndRestore(r, using)
          IN Raise(l, IF l.raised # NoExc THEN l.raised ELSE e)

\* try: savepoint_commit / except: savepoint_rollback; raise   (lines 41-45)
ExitInnerCommit(ctx, sid, using, fail) ==
  LET c == SavepointCommit(ctx, sid, using, "savepoint_commit" \in fail)
  IN IF c.raised = NoExc
     THEN c
     ELSE LET r == SavepointRollback(c, sid, using, "savepoint_rollback" \in fail)
          IN Raise(r, IF r.raised = NoExc THEN c.raised ELSE r.raised)

\* rollback; leave   (lines 50-51): a failing rollback skips the leave.
ExitOuterRollback(ctx, using, fail) ==
  LET r == Rollback(ctx, using, "rollback" \in fail)
  IN IF r.raised # NoExc THEN r ELSE LeaveManagementAndRestore(r, using)

\* Mutant: a nested scope rolling back the whole transaction.
ExitInnerRollbackWholeTransaction(ctx, sid, using, fail) ==
  Rollback(ctx, using, "rollback" \in fail)

\* savepoint_rollback   (line 54)
ExitInnerRollback(ctx, sid, using, fail) ==
  SavepointRollback(ctx, sid, using, "savepoint_rollback" \in fail)

\* Mutant: __exit__ returning True.
TransactionExitReturnTrue == TRUE

\* The value __exit__ returns when it returns (line 56).
TransactionExitReturn == FALSE

\* _Transaction.__exit__(exc_type, exc_value, traceback) of scope object sc.
\* The result carries ret, the value returned when raised = NoExc.
TransactionExit(ctx, sc, exc_value, fail) ==
  LET r == IF exc_value = NoExc
           THEN IF sc.sid = NoSid
                THEN ExitOuterCommit(ctx, sc.using, fail)
                ELSE ExitInnerCommit(ctx, sc.sid, sc.using, fail)
           ELSE IF sc.sid = NoSid
                THEN ExitOuterRollback(ctx, sc.using, fail)
                ELSE ExitInnerRollback(ctx, sc.sid, sc.using, fail)
  IN [cs |-> r.cs, ops |-> r.ops, raised |-> r.raised, ret |-> TransactionExitReturn]

\* The with statement after __exit__: an exception __exit__ raised propagates;
\* otherwise the block's exception propagates unless __exit__ returned true.
ExceptionAfterWith(exc_value, r) ==
  IF r.raised # NoExc THEN r.raised
  ELSE IF exc_value # NoExc /\ ~r.ret THEN exc_value
  ELSE NoExc

\* ----------------------------------------------------- _TransactionWrapper
\* _TransactionWrapper.__init__(using)
NewWrapper(using) == [using |-> using, transaction |-> NoScope]

\* The heap of _Transaction objects: a slot is free once its object has been
\* discarded, and a new object takes the first free slot.
FreeSlot == [using |-> "", sid |-> NoSid, begins |-> -1]

IsLive(heap, id) == id \in 1..Len(heap) /\ heap[id] # FreeSlot

Alloc ==
  IF \E i \in 1..Len(scopes) : scopes[i] = FreeSlot
  THEN CHOOSE i \in 1..Len(scopes) :
         /\ scopes[i] = FreeSlot
         /\ \A j \in 1..(i - 1) : scopes[j] # FreeSlot
  ELSE Len(scopes) + 1

RECURSIVE Trim(_)
Trim(heap) ==
  IF heap # <<>> /\ heap[Len(heap)] = FreeSlot THEN Trim(Pop(heap)) ELSE heap

\* Mutant: __enter__ creating a scope object on every call.
GuardBindingAlwaysNew(w) == [scope |-> Alloc, new |-> TRUE, store |-> TRUE]

\* The scope object _TransactionWrapper.__enter__ of wrapper w delegates to
\* (lines 93-95): a new one, kept in self.transaction, unless one is kept
\* already.  new: the object is created by this call; store: the handler
\* assigns self.transaction.
GuardBinding(w) ==
  IF wrappers[w].transaction = NoScope
  THEN [scope |-> Alloc, new |-> TRUE, store |-> TRUE]
  ELSE [scope |-> wrappers[w].transaction, new |-> FALSE, store |-> FALSE]

\* Mutant: every call of the decorated function assigning self.transaction.
DecoratorBindingStored(w) == [scope |-> Alloc, new |-> TRUE, store |-> TRUE]

\* Mutant: the decorator keeping its scope object in self.transaction.
DecoratorBindingKeptInWrapper(w) == GuardBinding(w)

\* The scope object a call of the function decorated by wrapper w uses
\* (line 103): always a new one, held by the with statement alone.
DecoratorBinding(w) == [scope |-> Alloc, new |-> TRUE, store |-> FALSE]

WrappersAfter(w, b) ==
  IF b.store THEN [wrappers EXCEPT ![w].transaction = b.scope] ELSE wrappers

\* The scope object as __enter__ finds it.
ScopeAtEnter(b, using) ==
  IF b.new THEN NewTransaction(using) ELSE scopes[b.scope]

\* The heap after __enter__ has run on the object of binding b and left sid.
ScopesAfterEnter(b, using, sid) ==
  LET sc == ScopeAtEnter(b, using)
      entered == [sc EXCEPT !.sid = sid, !.begins = @ + 1]
  IN IF b.scope = Len(scopes) + 1
     THEN Append(scopes, entered)
     ELSE [scopes EXCEPT ![b.scope] = entered]

\* The heap after the with statement of a frame has ended: the object is
\* discarded unless a wrapper still refers to it.
ScopesAfterExit(id) ==
  IF \E w \in 1..Len(wrappers) : wrappers[w].transaction = id
  THEN scopes
  ELSE Trim([scopes EXCEPT ![id] = FreeSlot])

\* -------------------------------------------------------------- histories
EmptyCtx(t) == [cs |-> conn[t], ops |-> <<>>, raised |-> NoExc]

\* The current outermost nest of a caller: n scopes begun; commits and
\* releases that succeeded; inOrder: every release released the innermost
\* active savepoint; clean: no block raised and no engine call failed;
\* fresh: every scope object was created by its begin; unmanaged: the alias
\* was not managed when the nest began; done: the outermost scope has exited.
NoNest ==
  [n |-> 0, commits |-> 0, releases |-> 0, inOrder |-> TRUE, clean |-> TRUE,
   fresh |-> TRUE, unmanaged |-> TRUE, alias |-> DEFAULT_DB_ALIAS,
   oneAlias |-> TRUE, done |-> FALSE]

\* The last exit of a caller, until the caller's next begin.  managed and
\* depth are what the matching begin found (see Begin).
NoLast ==
  [scope |-> NoScope, mode |-> "none", alias |-> DEFAULT_DB_ALIAS,
   sid |-> NoSid, excIn |-> NoExc, excOut |-> NoExc, returned |-> FALSE,
   ret |-> FALSE, ops |-> <<>>, origRet |-> None, callRet |-> None,
   outermost |-> FALSE, begins |-> 0, managed |-> FALSE, depth |-> 0]

NestAfterBegin(t, b, using) ==
  LET old == IF stack[t] = <<>>
             THEN [NoNest EXCEPT !.unmanaged = ~IsManaged(conn[t], using),
                                 !.alias = using]
             ELSE nest[t]
  IN [old EXCEPT !.n = @ + 1,
                 !.fresh = @ /\ b.new,
                 !.oneAlias = @ /\ using = old.alias,
                 !.done = FALSE]

Count(ops, name) ==
  Cardinality({i \in 1..Len(ops) : ops[i].op = name /\ ops[i].ok})

Attempts(ops, name) ==
  Cardinality({i \in 1..Len(ops) : ops[i].op = name})

Failed(ops) == {ops[i].op : i \in {j \in 1..Len(ops) : ~ops[j].ok}}

\* Every release in ops released the innermost savepoint active before it.
ReleasesInnermost(ops, savepoints) ==
  \A i \in 1..Len(ops) :
     (ops[i].op = "savepoint_commit" /\ ops[i].ok)
        => savepoints # <<>> /\ ops[i].sid = Top(savepoints)

\* ---------------------------------------------------------------- actions
\* The engine calls and heap changes of a begin by caller t through
\* wrapper w with binding b.  The frame pushed records what the begin found:
\* managed, the answer of is_managed, and depth, the alias's management
\* nesting depth.
Begin(t, w, b, mode, fn) ==
  LET using == wrappers[w].using
      sc == ScopeAtEnter(b, using)
      r == TransactionEnter(EmptyCtx(t), sc, t)
  IN /\ scopes' = ScopesAfterEnter(b, using, r.sid)
     /\ wrappers' = WrappersAfter(w, b)
     /\ conn' = [conn EXCEPT ![t] = r.cs]
     /\ stack' = [stack EXCEPT ![t] =
                    Append(@, [mode |-> mode, wrapper |-> w, scope |-> b.scope, fn |-> fn,
                               managed |-> IsManaged(conn[t], using),
                               depth |-> Len(conn[t][using].state)])]
     /\ nest' = [nest EXCEPT ![t] = NestAfterBegin(t, b, sc.using)]
     /\ last' = [last EXCEPT ![t] = NoLast]
     /\ begun' = [begun EXCEPT ![t] = @ + 1]
     /\ UNCHANGED <<threads, funcs, exc, failed, xactRet, nXact, served>>

\* with w: ...   _TransactionWrapper.__enter__ (lines 92-95)
GuardEnter(t, w) ==
  /\ t \in threads /\ exc[t] = NoExc /\ begun[t] < MaxBegins
  /\ w \in 1..Len(wrappers)
  /\ Begin(t, w, GuardBinding(w), "guard", 0)

\* inner(*args, **kwargs): with _Transaction(self.using): ...  (lines 102-103)
DecoratedCall(t, fn) ==
  /\ t \in threads /\ exc[t] = NoExc /\ begun[t] < MaxBegins
  /\ fn \in 1..Len(funcs)
  /\ Begin(t, funcs[fn].wrapper, DecoratorBinding(funcs[fn].wrapper), "decorator", fn)

\* _TransactionWrapper.__exit__ (lines 97-98): the scope object it delegates
\* to is the one self.transaction holds now.
WrapperExitScope(w) == wrappers[w].transaction

\* The scope object the exit of frame fr acts on: the wrapper's delegate in
\* guard mode, the with statement's own object in decorator mode (line 103).
ExitScope(fr) ==
  IF fr.mode = "guard" THEN WrapperExitScope(fr.wrapper) ELSE fr.scope

\* The innermost scope of caller t is left with exc_value (NoExc: the block
\* completed, returning v); fail are the engine calls that fail.
ExitTop(t, exc_value, v, fail) ==
  LET fr == Top(stack[t])
      id == ExitScope(fr)
      sc == scopes[id]
      r == TransactionExit(EmptyCtx(t), sc, exc_value, fail)
      out == ExceptionAfterWith(exc_value, r)
  IN /\ fail \subseteq Failed(r.ops)
     /\ failed + Cardinality(fail) <= MaxFailures
     /\ failed' = failed + Cardinality(fail)
     /\ conn' = [conn EXCEPT ![t] = r.cs]
     /\ scopes' = ScopesAfterExit(id)
     /\ stack' = [stack EXCEPT ![t] = Pop(@)]
     /\ exc' = [exc EXCEPT ![t] = out]
     /\ nest' = [nest EXCEPT ![t] =
                   [@ EXCEPT !.commits = @ + Count(r.ops, "commit"),
                             !.releases = @ + Count(r.ops, "savepoint_commit"),
                             !.inOrder = @ /\ ReleasesInnermost(r.ops, conn[t][sc.using].savepoints),
                             !.clean = @ /\ exc_value = NoExc /\ out = NoExc,
                             !.done = Len(stack[t]) = 1]]
     /\ last' = [last EXCEPT ![t] =
                   [scope |-> id, mode |-> fr.mode, alias |-> sc.using,
                    sid |-> sc.sid, excIn |-> exc_value, excOut |-> out,
                    returned |-> r.raised = NoExc, ret |-> r.ret,
                    ops |-> r.ops, origRet |-> v,
                    callRet |-> IF out = NoExc THEN v ELSE None,
                    outermost |-> Len(stack[t]) = 1, begins |-> sc.begins,
                    managed |-> fr.managed, depth |-> fr.depth]]
     /\ UNCHANGED <<threads, wrappers, funcs, begun, xactRet, nXact, served>>

Failures == SUBSET FailOps

\* The block of the innermost scope completes without an exception; the body
\* of a decorated function returns v.  fail: the engine calls that fail.
BlockReturn(t, v, fail) ==
  /\ t \in threads /\ exc[t] = NoExc /\ stack[t] # <<>>
  /\ v \in (IF Top(stack[t]).mode = "decorator" THEN RetVals ELSE {None})
  /\ ExitTop(t, NoExc, v, fail)

\* The block of the innermost scope raises an exception of its own.
BlockRaise(t, fail) ==
  /\ t \in threads /\ exc[t] = NoExc /\ stack[t] # <<>>
  /\ ExitTop(t, BlockError, None, fail)

\* An exception that left an inner scope is not caught in the enclosing
\* block and reaches the enclosing scope's exit.
Propagate(t, fail) ==
  /\ t \in threads /\ exc[t] # NoExc /\ stack[t] # <<>>
  /\ ExitTop(t, exc[t], None, fail)

\* The exception is caught: by the enclosing block, or by the caller.
Catch(t) ==
  /\ t \in threads /\ exc[t] # NoExc
  /\ exc' = [exc EXCEPT ![t] = NoExc]
  /\ UNCHANGED <<threads, conn, wrappers, funcs, scopes, stack, nest, last,
                 begun, failed, xactRet, nXact, served>>

\* ------------------------------------------------------------------ xact()
\* callable(using), line 111
IsCallable(x) == x \in Callables

\* Mutant: xact() without the callable test.
XactResultNoCallableTest(arg) ==
  LET using == IF arg = None THEN DEFAULT_DB_ALIAS ELSE arg
  IN [created |-> NewWrapper(using), kind |-> "wrapper", func |-> None]

\* xact(using=None): the _TransactionWrapper it creates and what it returns:
\* the wrapper itself, or (bare decorator) the wrapper applied to the callable.
XactResult(arg) ==
  LET using == IF arg = None THEN DEFAULT_DB_ALIAS ELSE arg
  IN IF IsCallable(using)
     THEN [created |-> NewWrapper(DEFAULT_DB_ALIAS), kind |-> "function", func |-> using]
     ELSE [created |-> NewWrapper(using), kind |-> "wrapper", func |-> None]

\* _TransactionWrapper.__call__(func): the function inner, which remembers
\* the wrapper (self) and the function it wraps.
WrapperCall(w, func) == [wrapper |-> w, func |-> func]

XactArgs == {None} \cup Aliases \cup Callables

Xact(arg) ==
  /\ Len(wrappers) < MaxWrappers
  /\ LET r == XactResult(arg)
         w == Len(wrappers) + 1
     IN /\ r.kind = "function" => Len(funcs) < MaxFuncs
        /\ wrappers' = Append(wrappers, r.created)
        /\ funcs' = IF r.kind = "function"
                    THEN Append(funcs, WrapperCall(w, r.func)) ELSE funcs
        /\ xactRet' = [arg |-> arg, kind |-> r.kind,
                       id |-> IF r.kind = "function" THEN Len(funcs) + 1 ELSE w,
                       wrapper |-> w]
  /\ nXact' = nXact + 1
  /\ UNCHANGED <<threads, conn, scopes, stack, exc, nest, last, begun, failed, served>>

\* @w def func ...: applying a wrapper xact() returned to a function.
Decorate(w, func) ==
  /\ w \in 1..Len(wrappers) /\ Len(funcs) < MaxFuncs
  /\ funcs' = Append(funcs, WrapperCall(w, func))
  /\ UNCHANGED <<threads, conn, wrappers, scopes, stack, exc, nest, last,
                 begun, failed, xactRet, nXact, served>>

\* ---------------------------------------------- TransactionModelResource
\* request.method values, and those dispatch passes through (line 9).
ReadOnlyMethods == {"GET", "HEAD", "OPTIONS", "TRACE"}
Methods == ReadOnlyMethods \cup {"POST", "PUT", "PATCH", "DELETE"}
RequestTypes == {"list", "detail"}
\* How the handler method the base dispatch calls ends.
Outcomes == {"returned", "raised"}
HandlerError == "HandlerError"

\* The object the expression transaction.atomic of line 10 evaluates to: the
\* function django.db.transaction.atomic itself (it is not called).
TransactionAtomic == [kind |-> "function"]

\* Whether the with statement finds __enter__ and __exit__ on the object's
\* type: a function object has neither.
HasContextManagerProtocol(obj) == obj.kind = "context manager"

\* Resource.patch_list, the implementation after ModelResource in the method
\* resolution order: the patch logic, run under the transaction levels the
\* call path has opened; ownTxn: ModelResource's transaction handling ran.
ResourcePatchList(levels, ownTxn, outcome) ==
  [handler |-> "patch_list", levels |-> levels, ownTxn |-> ownTxn,
   result |-> IF outcome = "returned" THEN NoExc ELSE HandlerError]

\* ModelResource.patch_list: Resource.patch_list inside a transaction of its
\* own ("ModelResource does transaction management on this", line 15).
ModelResourcePatchList(levels, outcome) ==
  ResourcePatchList(levels + 1, TRUE, outcome)

\* Mutant: patch_list calling the implementation of ModelResource.
TransactionModelResourcePatchListViaModelResource(levels, outcome) ==
  ModelResourcePatchList(levels, outcome)

\* TransactionModelResource.patch_list (lines 16-17):
\* super(ModelResource, self).patch_list
TransactionModelResourcePatchList(levels, outcome) ==
  ResourcePatchList(levels, FALSE, outcome)

\* The base dispatch: it calls the handler method named <method>_<type> of
\* the resource, under the transaction levels opened around it.
BaseDispatch(method, request_type, levels, outcome) ==
  IF method = "PATCH" /\ request_type = "list"
  THEN TransactionModelResourcePatchList(levels, outcome)
  ELSE [handler |-> method, levels |-> levels, ownTxn |-> FALSE,
        result |-> IF outcome = "returned" THEN NoExc ELSE HandlerError]

\* TransactionModelResource.dispatch (lines 8-13).  reached: the base dispatch
\* was called; opened: transactions the with statement opened; committed and
\* rolledBack: how the with statement ended the transaction it opened.
TransactionModelResourceDispatch(method, request_type, outcome) ==
  IF method \notin ReadOnlyMethods
  THEN IF HasContextManagerProtocol(TransactionAtomic)
       THEN LET b == BaseDispatch(method, request_type, 1, outcome)
            IN [reached |-> TRUE, opened |-> 1, base |-> b, result |-> b.result,
                committed |-> b.result = NoExc, rolledBack |-> b.result # NoExc]
       ELSE [reached |-> FALSE, opened |-> 0,
             base |-> [handler |-> "none", levels |-> 0, ownTxn |-> FALSE,
                       result |-> NoExc],
             result |-> AttributeError, committed |-> FALSE, rolledBack |-> FALSE]
  ELSE LET b == BaseDispatch(method, request_type, 0, outcome)
       IN [reached |-> TRUE, opened |-> 0, base |-> b, result |-> b.result,
           committed |-> FALSE, rolledBack |-> FALSE]

\* A request is dispatched through the resource.
Dispatch(method, request_type, outcome) ==
  /\ Len(served) < MaxRequests
  /\ served' = Append(served,
        [via |-> "dispatch", method |-> method, type |-> request_type,
         out |-> TransactionModelResourceDispatch(method, request_type, outcome)])
  /\ UNCHANGED <<threads, conn, wrappers, funcs, scopes, stack, exc, nest,
                 last, begun, failed, xactRet, nXact>>

\* The resource's patch_list is called on its own, outside any transaction.
PatchList(outcome) ==
  /\ Len(served) < MaxRequests
  /\ served' = Append(served,
        [via |-> "patch_list", method |-> "PATCH", type |-> "list",
         out |-> LET b == TransactionModelResourcePatchList(0, outcome)
                 IN [reached |-> TRUE, opened |-> 0, base |-> b,
                     result |-> b.result, committed |-> FALSE,
                     rolledBack |-> FALSE]])
  /\ UNCHANGED <<threads, conn, wrappers, funcs, scopes, stack, exc, nest,
                 last, begun, failed, xactRet, nXact>>

\* ---------------------------------------------------------- specification
\* A connection outside any transaction management.
NewConnection(uses_autocommit) ==
  [state |-> <<>>, savepoints |-> <<>>, savepoint_state |-> 0,
   isolation |-> IF uses_autocommit THEN ISOLATION_LEVEL_AUTOCOMMIT
                 ELSE ISOLATION_LEVEL_READ_COMMITTED,
   uses_autocommit |-> uses_autocommit, open |-> FALSE]

NoXact == [arg |-> None, kind |-> "none", id |-> 0, wrapper |-> 0]

InitCommon ==
  /\ \E ua \in BOOLEAN :
       conn = [t \in AllThreads |-> [a \in Aliases |-> NewConnection(ua)]]
  /\ scopes = <<>>
  /\ stack = [t \in AllThreads |-> <<>>]
  /\ exc = [t \in AllThreads |-> NoExc]
  /\ nest = [t \in AllThreads |-> NoNest]
  /\ last = [t \in AllThreads |-> NoLast]
  /\ begun = [t \in AllThreads |-> 0]
  /\ failed = 0
  /\ xactRet = NoXact
  /\ nXact = 0
  /\ served = <<>>

\* One caller.  The module has been imported: g1 = xact() and g2 = xact()
\* exist and f has been decorated with g1.
Init ==
  /\ threads = {1}
  /\ wrappers = <<NewWrapper(DEFAULT_DB_ALIAS), NewWrapper(DEFAULT_DB_ALIAS)>>
  /\ funcs = <<WrapperCall(1, "f")>>
  /\ InitCommon

Next ==
  \/ \E t \in AllThreads, w \in 1..Len(wrappers) : GuardEnter(t, w)
  \/ \E t \in AllThreads, fn \in 1..Len(funcs) : DecoratedCall(t, fn)
  \/ \E t \in AllThreads, v \in RetVals \cup {None}, fail \in Failures :
        BlockReturn(t, v, fail)
  \/ \E t \in AllThreads, fail \in Failures : BlockRaise(t, fail)
  \/ \E t \in AllThreads, fail \in Failures : Propagate(t, fail)
  \/ \E t \in AllThreads : Catch(t)

Spec == Init /\ [][Next]_vars

\* Two concurrent callers of one decorated function: the module has been
\* imported, f has been decorated with xact() once, and each caller has its
\* own connections.  No engine call fails: commits and rollbacks follow from
\* the blocks returning and raising.
InitConc ==
  /\ threads = {1, 2}
  /\ wrappers = <<NewWrapper(DEFAULT_DB_ALIAS)>>
  /\ funcs = <<WrapperCall(1, "f")>>
  /\ InitCommon

NextConc ==
  \/ \E t \in AllThreads, fn \in 1..Len(funcs) :
        begun[t] < MaxConcBegins /\ DecoratedCall(t, fn)
  \/ \E t \in AllThreads : BlockReturn(t, "r1", {})
  \/ \E t \in AllThreads : BlockRaise(t, {})
  \/ \E t \in AllThreads : Propagate(t, {})
  \/ \E t \in AllThreads : Catch(t)

SpecConc == InitConc /\ [][NextConc]_vars

\* The module is being imported: no wrapper exists, xact() is called in each
\* of its shapes, functions are decorated, and the results are used.  No
\* engine call fails, and an exception is caught where it leaves its scope.
InitXact ==
  /\ threads = {1}
  /\ wrappers = <<>>
  /\ funcs = <<>>
  /\ InitCommon

NextXact ==
  \/ \E arg \in XactArgs : Xact(arg)
  \/ \E w \in 1..Len(wrappers), func \in Callables : Decorate(w, func)
  \/ \E t \in AllThreads, w \in 1..Len(wrappers) :
        begun[t] < MaxXactBegins /\ GuardEnter(t, w)
  \/ \E t \in AllThreads, fn \in 1..Len(funcs) :
        begun[t] < MaxXactBegins /\ DecoratedCall(t, fn)
  \/ \E t \in AllThreads, v \in RetVals \cup {None} : BlockReturn(t, v, {})
  \/ \E t \in AllThreads : BlockRaise(t, {})
  \/ \E t \in AllThreads : Catch(t)

SpecXact == InitXact /\ [][NextXact]_vars

\* A resource serving requests; xact() is not involved.
InitResource ==
  /\ threads = {1}
  /\ wrappers = <<>>
  /\ funcs = <<>>
  /\ InitCommon

NextResource ==
  \/ \E method \in Methods, request_type \in RequestTypes, outcome \in Outcomes :
        Dispatch(method, request_type, outcome)
  \/ \E outcome \in Outcomes : PatchList(outcome)

SpecResource == InitResource /\ [][NextResource]_vars

\* One caller working on two aliases.  The module has been imported:
\* g1 = xact() (the default alias) and g2 = xact("other") exist, and f has
\* been decorated with g2.
InitAlias ==
  /\ threads = {1}
  /\ wrappers = <<NewWrapper(DEFAULT_DB_ALIAS), NewWrapper("other")>>
  /\ funcs = <<WrapperCall(2, "f")>>
  /\ InitCommon

NextAlias ==
  \/ \E t \in AllThreads, w \in 1..Len(wrappers) :
        begun[t] < MaxAliasBegins /\ GuardEnter(t, w)
  \/ \E t \in AllThreads, fn \in 1..Len(funcs) :
        begun[t] < MaxAliasBegins /\ DecoratedCall(t, fn)
  \/ \E t \in AllThreads, v \in {"r1", None}, fail \in Failures :
        BlockReturn(t, v, fail)
  \/ \E t \in AllThreads, fail \in Failures : BlockRaise(t, fail)
  \/ \E t \in AllThreads, fail \in Failures : Propagate(t, fail)
  \/ \E t \in AllThreads : Catch(t)

SpecAlias == InitAlias /\ [][NextAlias]_vars

\* ------------------------------------------------------------------ claims
\* A caller's nest that has completed, in which no block raised and no engine
\* call failed, every level is a scope object of its own created by its
\* begin, all on one alias that was not managed when the nest began.
CleanNestDone(t) ==
  /\ nest[t].done /\ nest[t].clean /\ nest[t].fresh
  /\ nest[t].unmanaged /\ nest[t].oneAlias

\* C1: a completed well-nested sequence of N scopes (guard or decorator) on
\* one alias, begun unmanaged, with no block raising and no engine call
\* failing, made exactly one outer commit and N-1 savepoint releases; every
\* release released the innermost savepoint active at that time, and the
\* commit was made last, by the exit of the outermost scope.
C1_OneCommitAndReleasesInExitOrder ==
  \A t \in threads :
     CleanNestDone(t) =>
        /\ nest[t].commits = 1
        /\ nest[t].releases = nest[t].n - 1
        /\ nest[t].inOrder
        /\ Count(last[t].ops, "commit") = 1
        /\ Count(last[t].ops, "savepoint_commit") = 0
        /\ ~IsManaged(conn[t], nest[t].alias)
        /\ ~conn[t][nest[t].alias].open

C1_Witness ==
  /\ CleanNestDone(1) /\ nest[1].n = 3 /\ nest[1].releases = 2
  /\ last[1].mode = "guard"

\* The last exit of caller t was entered with the exception its own block
\* raised, on a scope object begun once, and no engine call failed in it.
RaisedInBlock(t) ==
  /\ last[t].excIn = BlockError /\ last[t].begins = 1
  /\ Failed(last[t].ops) = {}

\* C2: when the block of a scope raises, only that level is rolled back: a
\* nested scope makes exactly one engine call, the rollback to its own
\* savepoint, and the enclosing transaction stays open and managed; an
\* outermost scope makes one full rollback; the exception that leaves the
\* scope is the one the block raised.
C2_OnlyTheRaisingLevelIsRolledBack ==
  \A t \in threads :
     RaisedInBlock(t) =>
        /\ last[t].excOut = BlockError
        /\ last[t].sid # NoSid =>
             /\ last[t].ops = <<Op("savepoint_rollback", last[t].alias, last[t].sid, TRUE)>>
             /\ IsManaged(conn[t], last[t].alias)
             /\ conn[t][last[t].alias].open
             /\ IsActive(conn[t][last[t].alias], last[t].sid)
        /\ last[t].sid = NoSid =>
             /\ Count(last[t].ops, "rollback") = 1
             /\ Attempts(last[t].ops, "savepoint_rollback") = 0
             /\ Attempts(last[t].ops, "commit") = 0
             /\ ~conn[t][last[t].alias].open

\* The nested case, the exception caught inside the enclosing scope.
C2_Witness ==
  /\ RaisedInBlock(1) /\ last[1].sid # NoSid
  /\ exc[1] = NoExc /\ stack[1] # <<>>

\* The last exit of caller t found no exception and its commit failed.
CommitFailed(t) ==
  /\ last[t].excIn = NoExc
  /\ Attempts(last[t].ops, "commit") = 1 /\ Count(last[t].ops, "commit") = 0

\* C3: when an outermost scope exits with no error in its block and the
\* commit fails, the rollback is made, transaction management is left exactly
\* once, and (the rollback succeeding) the transaction is rolled back and the
\* caller observes the commit failure.
C3_FailedCommitRollsBackAndLeavesOnce ==
  \A t \in threads :
     CommitFailed(t) =>
        /\ Attempts(last[t].ops, "rollback") = 1
        /\ Attempts(last[t].ops, "leave_transaction_management") = 1
        /\ Count(last[t].ops, "leave_transaction_management") = 1
        /\ Count(last[t].ops, "rollback") = 1 =>
             /\ last[t].excOut = CommitError
             /\ exc[t] \in {CommitError, NoExc}
             /\ ~conn[t][last[t].alias].open

C3_Witness ==
  /\ CommitFailed(1) /\ Count(last[1].ops, "rollback") = 1
  /\ exc[1] = CommitError /\ stack[1] = <<>>

\* C4: whenever the exit of a scope returns, in guard mode or decorator
\* mode, outermost or nested, with or without an exception from the block,
\* it returns False, and an exception from the block leaves the scope.
C4_ExitNeverSuppresses ==
  \A t \in threads :
     (last[t].mode # "none" /\ last[t].returned) =>
        /\ last[t].ret = FALSE
        /\ last[t].excOut = last[t].excIn

C4_Witness ==
  /\ last[1].mode = "guard" /\ last[1].returned
  /\ last[1].excIn = BlockError /\ last[1].sid # NoSid
  /\ exc[1] = BlockError

\* C5: two concurrent callers of one decorated function, each with its own
\* connections.  After every step, the scope objects of all calls in progress
\* are distinct objects, and each savepoint identifier a call holds is its
\* caller's own and held by no other call; and a step of one caller changes
\* neither the other caller's connections, nor the scope objects of the other
\* caller's calls in progress, nor the other caller's exception and outcome.
C5_ConcurrentCallsAreIndependent ==
  [][ \A u \in threads :
        /\ \A t \in threads : \A i \in 1..Len(stack'[u]) : \A j \in 1..Len(stack'[t]) :
              (t # u \/ i # j) =>
                 /\ stack'[u][i].scope # stack'[t][j].scope
                 /\ scopes'[stack'[u][i].scope].sid # NoSid =>
                       /\ scopes'[stack'[u][i].scope].sid[1] = u
                       /\ scopes'[stack'[u][i].scope].sid # scopes'[stack'[t][j].scope].sid
        /\ (stack'[u] = stack[u] /\ exc'[u] = exc[u]) =>
              /\ conn'[u] = conn[u]
              /\ last'[u] = last[u]
              /\ nest'[u] = nest[u]
              /\ \A i \in 1..Len(stack[u]) :
                    scopes'[stack[u][i].scope] = scopes[stack[u][i].scope]
    ]_vars

\* Both callers are inside a nested call (each holds a savepoint) while one
\* of them has just rolled back an inner call.
C5_Witness ==
  /\ Len(stack[1]) = 1 /\ Len(stack[2]) = 2
  /\ last[1].excIn = BlockError /\ last[1].sid # NoSid
  /\ scopes[stack[2][2].scope].sid # NoSid

\* C6 (as claimed): a read-only request reaches the base dispatch with no
\* transaction opened; any other request reaches the base dispatch with one
\* transaction opened around the call, committed when the call returns and
\* rolled back when it raises.
C6_WritesDispatchedInTransaction ==
  \A i \in 1..Len(served) :
     served[i].via = "dispatch" =>
        /\ served[i].out.reached
        /\ served[i].method \in ReadOnlyMethods =>
              served[i].out.opened = 0 /\ served[i].out.base.levels = 0
        /\ served[i].method \notin ReadOnlyMethods =>
              /\ served[i].out.opened = 1 /\ served[i].out.base.levels = 1
              /\ served[i].out.committed = (served[i].out.base.result = NoExc)
              /\ served[i].out.rolledBack = (served[i].out.base.result # NoExc)

C8_XactCallShapes ==
  /\ Len(wrappers) = nXact
  /\ xactRet.kind # "none" =>
        /\ IsCallable(xactRet.arg) =>
              /\ xactRet.kind = "function"
              /\ funcs[xactRet.id] = [wrapper |-> xactRet.wrapper, func |-> xactRet.arg]
              /\ wrappers[xactRet.wrapper].using = DEFAULT_DB_ALIAS
        /\ xactRet.arg = None =>
              /\ xactRet.kind = "wrapper" /\ xactRet.id = xactRet.wrapper
              /\ wrappers[xactRet.id].using = DEFAULT_DB_ALIAS
        /\ xactRet.arg \in Aliases =>
              /\ xactRet.kind = "wrapper" /\ xactRet.id = xactRet.wrapper
              /\ wrappers[xactRet.id].using = xactRet.arg
  /\ \A t \in threads :
        /\ \A i \in 1..Len(stack[t]) :
              stack[t][i].mode = "decorator" =>
                 /\ IsManaged(conn[t], wrappers[funcs[stack[t][i].fn].wrapper].using)
                 /\ scopes[stack[t][i].scope].using
                       = wrappers[funcs[stack[t][i].fn].wrapper].using
        /\ (last[t].mode = "decorator" /\ last[t].excOut = NoExc) =>
              /\ last[t].callRet = last[t].origRet
              /\ last[t].callRet \in RetVals

\* A bare-decorated function has been called and has returned "r2".
C8_Witness ==
  /\ xactRet.kind = "function" /\ IsCallable(xactRet.arg)
  /\ last[1].mode = "decorator" /\ last[1].callRet = "r2"
  /\ stack[1] = <<>>

\* C9 (as claimed): every begin is performed on a scope object on which no
\* begin has been performed before.
C9_EveryBeginOnFreshScope ==
  \A i \in 1..Len(scopes) : IsLive(scopes, i) => scopes[i].begins <= 1

\* C10: self.transaction of a wrapper, once set, never changes, and every
\* scope entered in guard mode is the object the wrapper holds.
C10_CurrentScopeSetOnce ==
  [][ /\ \A w \in 1..Len(wrappers) :
           wrappers[w].transaction # NoScope
              => wrappers'[w].transaction = wrappers[w].transaction
      /\ \A t \in threads : \A i \in 1..Len(stack'[t]) :
           stack'[t][i].mode = "guard"
              => stack'[t][i].scope = wrappers'[stack'[t][i].wrapper].transaction
    ]_vars

\* A later enter on the same wrapper: its scope object has been begun twice.
C10_Witness ==
  \E w \in 1..Len(wrappers) :
     /\ wrappers[w].transaction # NoScope
     /\ scopes[wrappers[w].transaction].begins = 2

\* C11 (as claimed): at every exit of a scope, in every sequence of guard
\* and decorator uses (a wrapper used as a guard more than once included),
\* the scope's sid is None exactly when the matching begin found the alias
\* unmanaged and started the outermost transaction, and is a savepoint
\* identifier exactly when that begin found it managed and made a savepoint.
C11_SidMatchesLevelOfOwnBegin ==
  \A t \in threads :
     last[t].mode # "none" => (last[t].sid = NoSid <=> ~last[t].managed)

\* The outcome of the last exit of caller t at the level its begin opened: the
\* outer transaction when the begin found the alias unmanaged, a savepoint
\* when it found it managed.
Committed(t) ==
  IF last[t].managed
  THEN Count(last[t].ops, "savepoint_commit") = 1
  ELSE Count(last[t].ops, "commit") = 1

RolledBack(t) ==
  IF last[t].managed
  THEN Count(last[t].ops, "savepoint_rollback") = 1
  ELSE Count(last[t].ops, "rollback") = 1

\* C12 (as claimed, for runs in which the engine refuses no call): every
\* exit of a scope ends in exactly one outcome at its level, never both and
\* never neither: committed (outer commit, or release of the savepoint) when
\* the block raised nothing, rolled back when it raised.
C12_ExactlyOneTerminalOutcome ==
  \A t \in threads :
     (last[t].mode # "none" /\ failed = 0) =>
        /\ Committed(t) # RolledBack(t)
        /\ Committed(t) <=> last[t].excIn = NoExc

\* The last exit of caller t found no exception, acted on a savepoint (sid
\* set) and its release failed.
ReleaseFailed(t) ==
  /\ last[t].excIn = NoExc /\ last[t].sid # NoSid
  /\ Attempts(last[t].ops, "savepoint_commit") = 1
  /\ Count(last[t].ops, "savepoint_commit") = 0

\* C13: when a nested scope exits with no error in its block and the release
\* of its savepoint fails, the exit makes exactly one more engine call, the
\* rollback to its own savepoint, and (that rollback succeeding) raises the
\* release failure; it makes no commit, no full rollback and no leave of
\* transaction management, and the enclosing transaction stays open and
\* managed.
C13_FailedReleaseRollsBackToOwnSavepoint ==
  \A t \in threads :
     ReleaseFailed(t) =>
        /\ Len(last[t].ops) = 2
        /\ last[t].ops[1] = Op("savepoint_commit", last[t].alias, last[t].sid, FALSE)
        /\ last[t].ops[2].op = "savepoint_rollback"
        /\ last[t].ops[2].sid = last[t].sid
        /\ last[t].ops[2].alias = last[t].alias
        /\ Attempts(last[t].ops, "commit") = 0
        /\ Attempts(last[t].ops, "rollback") = 0
        /\ Attempts(last[t].ops, "leave_transaction_management") = 0
        /\ last[t].excOut # NoExc
        /\ IsManaged(conn[t], last[t].alias)
        /\ conn[t][last[t].alias].open
        /\ last[t].ops[2].ok =>
              /\ last[t].excOut = ReleaseError
              /\ IsActive(conn[t][last[t].alias], last[t].sid)

\* A nested scope begun once whose release the engine refused: the rollback
\* to the savepoint succeeded and the release failure is propagating inside
\* the enclosing scope.
C13_Witness ==
  /\ ReleaseFailed(1) /\ last[1].begins = 1 /\ last[1].managed
  /\ last[1].ops[2].ok
  /\ exc[1] = ReleaseError /\ stack[1] # <<>>

\* C14: in every exit step, connections[using]._set_isolation_level is
\* called at most once, as the last engine call and directly after a
\* leave_transaction_management that succeeded; an exit acting on a savepoint
\* neither leaves transaction management nor calls it.  After an exit whose
\* leave succeeded, the isolation level has been forced to autocommit exactly
\* when the alias is no longer managed and the backend has uses_autocommit;
\* in every other exit the isolation level is what it was before the exit.
C14_IsolationRestoredOnlyOnOutermostLeave ==
  [][ \A t \in threads :
        Len(stack'[t]) < Len(stack[t]) =>
           LET a == last'[t].alias
               ops == last'[t].ops
               n == Len(ops)
               restores == Attempts(ops, "_set_isolation_level")
               left == Count(ops, "leave_transaction_management") = 1
           IN /\ restores <= 1
              /\ restores = 1 =>
                    /\ n >= 2 /\ ops[n].op = "_set_isolation_level"
                    /\ ops[n].alias = a
                    /\ ops[n - 1] = Op("leave_transaction_management", a, NoSid, TRUE)
              /\ (last'[t].sid # NoSid \/ last'[t].managed) =>
                    /\ restores = 0
                    /\ Attempts(ops, "leave_transaction_management") = 0
              /\ IF left /\ ~IsManaged(conn'[t], a) /\ conn'[t][a].uses_autocommit
                 THEN /\ restores = 1
                      /\ conn'[t][a].isolation = ISOLATION_LEVEL_AUTOCOMMIT
                 ELSE /\ restores = 0
                      /\ conn'[t][a].isolation = conn[t][a].isolation
    ]_vars

\* An outermost scope has exited on a backend with uses_autocommit: the
\* isolation level, which was not autocommit inside the transaction, has
\* been forced back; and an exit on a savepoint happened before it in the
\* same nest.
C14_Witness ==
  /\ last[1].outermost /\ last[1].sid = NoSid /\ nest[1].n >= 2
  /\ Count(last[1].ops, "_set_isolation_level") = 1
  /\ conn[1][last[1].alias].uses_autocommit
  /\ conn[1][last[1].alias].isolation = ISOLATION_LEVEL_AUTOCOMMIT

\* C15: a step of a call of a decorated function, its begin or its exit,
\* leaves every wrapper's self.transaction as it was and changes no scope
\* object a wrapper holds.  The begin acts on an object that did not exist
\* before and that no wrapper holds; the exit acts on that same object, which
\* is discarded afterwards.  When the body raised nothing and no engine call
\* failed, the exit of a call begun on a managed alias (a call made inside a
\* guard or a recursive call) makes the single engine call that releases the
\* savepoint its own begin made, and the exit of an outermost call commits.
C15_DecoratorLeavesCurrentScopeAlone ==
  [][ \A t \in threads :
        /\ (Len(stack'[t]) > Len(stack[t]) /\ Top(stack'[t]).mode = "decorator") =>
              LET fr == Top(stack'[t])
              IN /\ wrappers' = wrappers
                 /\ \A w \in 1..Len(wrappers) :
                       wrappers[w].transaction # NoScope =>
                          /\ wrappers[w].transaction # fr.scope
                          /\ scopes'[wrappers[w].transaction] = scopes[wrappers[w].transaction]
                 /\ ~IsLive(scopes, fr.scope)
                 /\ scopes'[fr.scope].begins = 1
                 /\ scopes'[fr.scope].using = wrappers[fr.wrapper].using
                 /\ (scopes'[fr.scope].sid # NoSid) = fr.managed
        /\ (Len(stack'[t]) < Len(stack[t]) /\ Top(stack[t]).mode = "decorator") =>
              LET fr == Top(stack[t])
                  ops == last'[t].ops
              IN /\ wrappers' = wrappers
                 /\ \A w \in 1..Len(wrappers) :
                       wrappers[w].transaction # NoScope =>
                          /\ wrappers[w].transaction # fr.scope
                          /\ scopes'[wrappers[w].transaction] = scopes[wrappers[w].transaction]
                 /\ last'[t].scope = fr.scope
                 /\ ~IsLive(scopes', fr.scope)
                 /\ (last'[t].excIn = NoExc /\ Failed(ops) = {}) =>
                       IF fr.managed
                       THEN ops = <<Op("savepoint_commit", scopes[fr.scope].using,
                                       scopes[fr.scope].sid, TRUE)>>
                       ELSE /\ Count(ops, "commit") = 1
                            /\ Count(ops, "leave_transaction_management") = 1
                            /\ Attempts(ops, "savepoint_commit") = 0
    ]_vars

\* The caller is inside `with g1:` and inside a call of f, which g1
\* decorates; a recursive call of f has just released its savepoint, and g1
\* still holds the scope object of the guard.
C15_Witness ==
  /\ Len(stack[1]) = 2
  /\ stack[1][1].mode = "guard" /\ stack[1][2].mode = "decorator"
  /\ funcs[stack[1][2].fn].wrapper = stack[1][1].wrapper
  /\ wrappers[stack[1][1].wrapper].transaction = stack[1][1].scope
  /\ last[1].mode = "decorator" /\ last[1].sid # NoSid
  /\ last[1].excOut = NoExc /\ Count(last[1].ops, "savepoint_commit") = 1

\* C16 (as claimed): whenever the exit of an outermost scope (its begin found
\* the alias unmanaged and its sid is None) has completed, by returning or by
\* raising, whatever engine call failed, leave_transaction_management has
\* been called exactly once and has popped the level the begin pushed: the
\* management nesting depth of the alias is what it was before the begin.
C16_ManagementBalancedOnEveryExitPath ==
  [][ \A t \in threads :
        (Len(stack'[t]) < Len(stack[t])
           /\ ~last'[t].managed /\ last'[t].sid = NoSid) =>
              /\ Count(last'[t].ops, "leave_transaction_management") = 1
              /\ Len(conn'[t][last'[t].alias].state) = last'[t].depth
    ]_vars

\* Caller t is inside `with g: with g:` and nothing else: one wrapper g, not
\* used before, entered twice as a guard on an alias that was unmanaged; no
\* block has raised and the engine has refused no call.
ReenteredTwice(t) ==
  /\ Len(stack[t]) = 2
  /\ stack[t][1].mode = "guard" /\ stack[t][2].mode = "guard"
  /\ stack[t][1].wrapper = stack[t][2].wrapper
  /\ scopes[stack[t][2].scope].begins = 2
  /\ nest[t].n = 2 /\ nest[t].unmanaged /\ nest[t].clean
  /\ exc[t] = NoExc /\ failed = 0

\* Caller t has left the inner `with g:` of such a nest and is still inside
\* the outer one.
ReenteredOnceLeft(t) ==
  /\ Len(stack[t]) = 1 /\ stack[t][1].mode = "guard"
  /\ last[t].mode = "guard" /\ last[t].scope = stack[t][1].scope
  /\ scopes[stack[t][1].scope].begins = 2
  /\ nest[t].n = 2 /\ nest[t].unmanaged /\ nest[t].clean
  /\ exc[t] = NoExc /\ failed = 0

\* C17 (as claimed): in `with g: with g: pass` on an unmanaged alias, with no
\* error, the two exits make the engine calls two distinct guards nested
\* would make: the inner exit releases the one savepoint and nothing else;
\* the outer exit makes one commit and one leave of transaction management
\* and no savepoint call, leaving the alias unmanaged with nothing
\* uncommitted and no exception raised.
C17_ReentryLikeTwoDistinctGuards ==
  [][ \A t \in threads :
        /\ (ReenteredTwice(t) /\ Len(stack'[t]) = 1
              /\ last'[t].excIn = NoExc /\ failed' = 0) =>
              /\ Len(last'[t].ops) = 1
              /\ Count(last'[t].ops, "savepoint_commit") = 1
              /\ exc'[t] = NoExc
        /\ (ReenteredOnceLeft(t) /\ Len(stack'[t]) = 0
              /\ last'[t].excIn = NoExc /\ failed' = 0) =>
              /\ Count(last'[t].ops, "commit") = 1
              /\ Count(last'[t].ops, "leave_transaction_management") = 1
              /\ Attempts(last'[t].ops, "savepoint_commit") = 0
              /\ Attempts(last'[t].ops, "savepoint_rollback") = 0
              /\ Attempts(last'[t].ops, "rollback") = 0
              /\ ~IsManaged(conn'[t], last'[t].alias)
              /\ ~conn'[t][last'[t].alias].open
              /\ exc'[t] = NoExc
    ]_vars

\* C18: every begin step and every exit step of a scope for alias A leaves
\* the connection of every other alias B as it was: management stack, open
\* transaction, savepoints, savepoint counter and isolation level; and every
\* engine call of an exit names alias A.  What a begin does depends on A
\* alone: if A is unmanaged it starts an outer transaction on A (one more
\* management level, managed, no new savepoint), whether or not another alias
\* has a transaction open; if A is managed it makes one savepoint on A.
C18_ScopeActsOnlyOnItsOwnAlias ==
  [][ \A t \in threads :
        /\ Len(stack'[t]) > Len(stack[t]) =>
              LET fr == Top(stack'[t])
                  A == scopes'[fr.scope].using
              IN /\ A = wrappers[fr.wrapper].using
                 /\ \A B \in Aliases \ {A} : conn'[t][B] = conn[t][B]
                 /\ fr.managed = IsManaged(conn[t], A)
                 /\ IF IsManaged(conn[t], A)
                    THEN /\ conn'[t][A].state = conn[t][A].state
                         /\ conn'[t][A].savepoints
                               = Append(conn[t][A].savepoints, scopes'[fr.scope].sid)
                    ELSE /\ Len(conn'[t][A].state) = Len(conn[t][A].state) + 1
                         /\ IsManaged(conn'[t], A)
                         /\ conn'[t][A].open
                         /\ conn'[t][A].savepoints = conn[t][A].savepoints
                         /\ scopes'[fr.scope].begins = 1 => scopes'[fr.scope].sid = NoSid
        /\ Len(stack'[t]) < Len(stack[t]) =>
              LET A == last'[t].alias
              IN /\ A = scopes[ExitScope(Top(stack[t]))].using
                 /\ \A B \in Aliases \ {A} : conn'[t][B] = conn[t][B]
                 /\ \A i \in 1..Len(last'[t].ops) : last'[t].ops[i].alias = A
    ]_vars

\* The caller is inside a scope on one alias, whose transaction is open, and
\* inside it has begun a scope on the other alias: that begin started an
\* outer transaction there, and the first alias has no savepoint.
C18_Witness ==
  /\ Len(stack[1]) = 2
  /\ scopes[stack[1][1].scope].using # scopes[stack[1][2].scope].using
  /\ ~stack[1][1].managed /\ ~stack[1][2].managed
  /\ scopes[stack[1][2].scope].sid = NoSid
  /\ \A a \in Aliases :
        /\ IsManaged(conn[1], a) /\ conn[1][a].open
        /\ conn[1][a].savepoints = <<>>
        /\ Len(conn[1][a].state) = 1

====
